---------------------------- MODULE Spec2Model ----------------------------
(* State-machine model of ImageSegmenter                                   *)
(* (src/src/mpl_image_segmenter/_segmenter.py).                            *)
(*                                                                         *)
(* The label mask and the RGBA overlay are functions over the pixel grid,  *)
(* the class registry and the color table are 0-based arrays as in the     *)
(* Python code, and every property write / lasso callback is one action.   *)
(* Coordinates are kept in half-pixel units (pixel column c is x = 2c), so *)
(* that lasso vertices lying between pixels are integers.                  *)
EXTENDS Integers, Sequences, FiniteSets

(***************************************************************************)
(* Bounds of the model                                                     *)
(***************************************************************************)
NClasses == 2
GridH == 2
GridW == GridH + 1
MaxGestures == 2

(***************************************************************************)
(* Program constants                                                       *)
(***************************************************************************)
DefaultMaskAlpha == 75

VARIABLES
    classes,        \* self._classes     : 0-based array of identifiers
    n_classes,      \* self._n_classes
    mask_alpha,     \* self.mask_alpha   (percent)
    mask_colors,    \* self.mask_colors  : 0-based array of RGBA rows
    mask,           \* self.mask         : [Cells -> Int]
    overlay,        \* self._overlay     : [Cells -> RGBA]
    cur_class_idx,  \* self._cur_class_idx
    erasing,        \* self._erasing
    paths,          \* self._paths       : [adding, erasing -> Seq(Path)]
    shown,          \* data held by the AxesImage self._mask (set_data copies)
    draws,          \* number of draw_idle() requests issued on the canvas
    exc,            \* exception raised by the last call, "none" if it returned
    ret,            \* <<v>> if the last call returned v, <<>> if it returned None
    log,            \* observer: completed gestures in order, with mode and value written
    mask0           \* observer: the label mask right after construction

vars == <<classes, n_classes, mask_alpha, mask_colors, mask, overlay,
          cur_class_idx, erasing, paths, shown, draws, exc, ret, log, mask0>>

(***************************************************************************)
(* Python values that reach the property setters                           *)
(***************************************************************************)
PyInt(k) == [t |-> "int", n |-> k, s |-> ""]
PyStr(x) == [t |-> "str", n |-> 0, s |-> x]
PyBool(b) == [t |-> "bool", n |-> IF b THEN 1 ELSE 0, s |-> ""]
PyFloat(x) == [t |-> "float", n |-> 0, s |-> x]
PyNone == [t |-> "NoneType", n |-> 0, s |-> ""]

IsStr(val) == val.t = "str"
\* bool is a subclass of int, so it is Integral as well
IsIntegral(val) == val.t \in {"int", "bool"}

\* Python's == between two of these values
PyEq(a, b) ==
    \/ IsIntegral(a) /\ IsIntegral(b) /\ a.n = b.n
    \/ IsStr(a) /\ IsStr(b) /\ a.s = b.s
    \/ a.t = b.t /\ a.t \notin {"int", "bool", "str"} /\ a = b

\* arr[i] on a 0-based array of length len, negative i counted from the end
PyItem(arr, len, i) == IF i < 0 THEN arr[i + len] ELSE arr[i]

\* val in arr
PyIn(val, arr, len) == \E i \in 0..(len - 1) : PyEq(arr[i], val)

\* arr.index(val), for val in arr
PyIndex(val, arr, len) ==
    CHOOSE i \in 0..(len - 1) :
        /\ PyEq(arr[i], val)
        /\ \A j \in 0..(i - 1) : ~PyEq(arr[j], val)

(***************************************************************************)
(* Pixel grid                                                              *)
(***************************************************************************)
Shape == <<GridH, GridW>>
Cells == (0..(Shape[1] - 1)) \X (0..(Shape[2] - 1))

\* self.pix: row k of the (H*W, 2) array is the (x, y) of pixel k
pix == [k \in 0..(Shape[1] * Shape[2] - 1) |->
            <<2 * (k % Shape[2]), 2 * (k \div Shape[2])>>]

Transparent == <<0, 0, 0, 0>>

\* arr[idx] = val with a boolean index array idx
MaskedAssign(arr, idx, val) ==
    [cell \in Cells |-> IF idx[cell] THEN val ELSE arr[cell]]

(***************************************************************************)
(* Path.contains_points(points, radius=0): crossings of the +x ray from    *)
(* the point with the edges of the implicitly closed polygon.              *)
(***************************************************************************)
Crosses(v0, v1, pt) ==
    LET yflag0 == v0[2] >= pt[2]
        yflag1 == v1[2] >= pt[2]
    IN  /\ yflag0 # yflag1
        /\ (((v1[2] - pt[2]) * (v0[1] - v1[1])
                >= (v1[1] - pt[1]) * (v0[2] - v1[2])) <=> yflag1)

CrossingEdges(verts, pt) ==
    {k \in 1..Len(verts) : Crosses(verts[k], verts[(k % Len(verts)) + 1], pt)}

PointInPathAnyCrossing(verts, pt) == CrossingEdges(verts, pt) # {}

PointInPath(verts, pt) == Cardinality(CrossingEdges(verts, pt)) % 2 = 1

ContainsPoints(verts, points) ==
    [k \in DOMAIN points |-> PointInPath(verts, points[k])]

\* flat.reshape(self.mask.shape)
Reshape(flat) == [cell \in Cells |-> flat[cell[1] * Shape[2] + cell[2]]]

(***************************************************************************)
(* Construction                                                            *)
(***************************************************************************)
\* the first colors of matplotlib's TABLEAU_COLORS, alpha 1 after to_rgba_array
TableauColors ==
    <<<<31, 119, 180, 100>>, <<255, 127, 14, 100>>,
      <<44, 160, 44, 100>>, <<214, 39, 40, 100>>>>

\* colors a caller passes as mask_colors, with alphas of their own
CallerColors ==
    <<<<255, 0, 0, 50>>, <<0, 255, 0, 20>>, <<0, 0, 255, 100>>, <<255, 255, 0, 0>>>>

\* identifiers a caller passes as an explicit class list
CallerClasses == <<"cell", "nucleus", "membrane", "debris">>

\* a mask a caller passes as seed, cells in [0, n]
SeedMask(n) == [cell \in Cells |-> (cell[1] + cell[2]) % (n + 1)]

\* the constructor arguments the model draws from
Configs ==
    { [classes |-> "count", mask |-> "none", mask_colors |-> "none",
       mask_alpha |-> DefaultMaskAlpha],
      [classes |-> "list", mask |-> "seed", mask_colors |-> "given",
       mask_alpha |-> 40],
      [classes |-> "count", mask |-> "seed", mask_colors |-> "none",
       mask_alpha |-> 0] }

\* lines 73-77
InitClasses(cfg) ==
    IF cfg.classes = "count"
    THEN [i \in 0..(NClasses - 1) |-> PyInt(i)]
    ELSE [i \in 0..(NClasses - 1) |-> PyStr(CallerClasses[i + 1])]

InitColorsKeepAlpha(cfg) ==
    LET src == IF cfg.mask_colors = "none" THEN TableauColors ELSE CallerColors
    IN  [i \in 0..(NClasses - 1) |->
            IF cfg.mask_colors = "none"
            THEN <<src[i + 1][1], src[i + 1][2], src[i + 1][3], cfg.mask_alpha>>
            ELSE src[i + 1]]

\* lines 78-90: the palette or the caller's colors, alpha overwritten
InitColors(cfg) ==
    LET src == IF cfg.mask_colors = "none" THEN TableauColors ELSE CallerColors
    IN  [i \in 0..(NClasses - 1) |->
            <<src[i + 1][1], src[i + 1][2], src[i + 1][3], cfg.mask_alpha>>]

\* lines 94-98
InitMask(cfg) ==
    IF cfg.mask = "none" THEN [cell \in Cells |-> 0] ELSE SeedMask(NClasses)

\* lines 100-106: for i in range(n + 1): overlay[mask == i] = ...
RECURSIVE FillOverlay(_, _, _, _, _)
FillOverlay(ov, m, colors, n, i) ==
    IF i > n THEN ov
    ELSE FillOverlay(
            MaskedAssign(ov, [cell \in Cells |-> m[cell] = i],
                         IF i = 0 THEN Transparent ELSE colors[i - 1]),
            m, colors, n, i + 1)

InitOverlay(m, colors, n) ==
    FillOverlay([cell \in Cells |-> Transparent], m, colors, n, 0)

InitialErasingOn == TRUE

\* line 153
InitialErasing == FALSE

Init ==
    \E cfg \in Configs :
        /\ mask_alpha = cfg.mask_alpha
        /\ classes = InitClasses(cfg)
        /\ n_classes = NClasses
        /\ mask_colors = InitColors(cfg)
        /\ mask = InitMask(cfg)
        /\ overlay = InitOverlay(InitMask(cfg), InitColors(cfg), NClasses)
        /\ shown = InitOverlay(InitMask(cfg), InitColors(cfg), NClasses)
        /\ draws = 0
        /\ cur_class_idx = 1
        /\ erasing = InitialErasing
        /\ paths = [adding |-> <<>>, erasing |-> <<>>]
        /\ exc = "none"
        /\ ret = <<>>
        /\ log = <<>>
        /\ mask0 = InitMask(cfg)

(***************************************************************************)
(* Outcome of a call                                                       *)
(***************************************************************************)
Returns(v) == exc' = "none" /\ ret' = v

Raises(e) ==
    /\ exc' = e
    /\ ret' = <<>>
    /\ UNCHANGED <<classes, n_classes, mask_alpha, mask_colors, mask, overlay,
                   cur_class_idx, erasing, paths, shown, draws, log, mask0>>

(***************************************************************************)
(* erasing (property)                                                      *)
(***************************************************************************)
erasing_get == erasing

IsBoolOrInt(val) == IsIntegral(val)

IsBool(val) == val.t = "bool"

ErasingSetter(val) ==
    IF ~IsBool(val)
    THEN Raises("TypeError")
    ELSE /\ erasing' = (val.n = 1)
         /\ Returns(<<>>)
         /\ UNCHANGED <<classes, n_classes, mask_alpha, mask_colors, mask,
                        overlay, cur_class_idx, paths, shown, draws, log, mask0>>

(***************************************************************************)
(* current_class (property)                                                *)
(***************************************************************************)
current_class == PyItem(classes, n_classes, cur_class_idx - 1)

IndexInRangeFromZero(val) == 0 <= val.n /\ val.n < n_classes + 1

IndexInRange(val) == 0 < val.n /\ val.n < n_classes + 1

ClassPositionNoOffset(val) == PyIndex(val, classes, n_classes)

\* offset by one for the background
ClassPosition(val) == PyIndex(val, classes, n_classes) + 1

SetIdxStopErasing(i) ==
    /\ cur_class_idx' = i
    /\ erasing' = FALSE
    /\ Returns(<<>>)
    /\ UNCHANGED <<classes, n_classes, mask_alpha, mask_colors, mask, overlay,
                   paths, shown, draws, log, mask0>>

SetIdx(i) ==
    /\ cur_class_idx' = i
    /\ Returns(<<>>)
    /\ UNCHANGED <<classes, n_classes, mask_alpha, mask_colors, mask, overlay,
                   erasing, paths, shown, draws, log, mask0>>

CurrentClassSetterIdentifierFirst(val) ==
    IF PyIn(val, classes, n_classes)
    THEN SetIdx(ClassPosition(val))
    ELSE IF IsStr(val)
         THEN Raises("ValueError")
         ELSE IF IsIntegral(val)
              THEN IF IndexInRange(val)
                   THEN SetIdx(val.n)
                   ELSE Raises("ValueError")
              ELSE /\ Returns(<<>>)
                   /\ UNCHANGED <<classes, n_classes, mask_alpha, mask_colors,
                                  mask, overlay, cur_class_idx, erasing, paths,
                                  shown, draws, log, mask0>>

CurrentClassSetter(val) ==
    IF IsStr(val)
    THEN IF ~PyIn(val, classes, n_classes)
         THEN Raises("ValueError")
         ELSE SetIdx(ClassPosition(val))
    ELSE IF IsIntegral(val)
         THEN IF IndexInRange(val)
              THEN SetIdx(val.n)
              ELSE Raises("ValueError")
         \* neither branch is taken: the call returns without a write
         ELSE /\ Returns(<<>>)
              /\ UNCHANGED <<classes, n_classes, mask_alpha, mask_colors, mask,
                             overlay, cur_class_idx, erasing, paths, shown,
                             draws, log, mask0>>

(***************************************************************************)
(* get_paths()                                                             *)
(***************************************************************************)
GetPaths ==
    /\ Returns(<<paths>>)
    /\ UNCHANGED <<classes, n_classes, mask_alpha, mask_colors, mask, overlay,
                   cur_class_idx, erasing, paths, shown, draws, log, mask0>>

(***************************************************************************)
(* _onselect(verts): the lasso selector's completion callback              *)
(***************************************************************************)
\* the vertex count and position of the lasso are the user's; these four
\* outlines give a full cover, a miss and two partly overlapping strips
PolyAll == <<<<-1, -1>>, <<4 * Shape[2] + 1, -1>>, <<-1, 4 * Shape[1] + 1>>>>

PolyOut ==
    <<<<2 * Shape[2] + 1, -1>>, <<2 * Shape[2] + 3, -1>>,
      <<2 * Shape[2] + 3, 2 * Shape[1] - 1>>, <<2 * Shape[2] + 1, 2 * Shape[1] - 1>>>>

PolyLeft == <<<<-1, -1>>, <<1, -1>>, <<1, 2 * Shape[1] - 1>>, <<-1, 2 * Shape[1] - 1>>>>

PolyTop == <<<<-1, -1>>, <<-1, 1>>, <<2 * Shape[2] - 1, 1>>, <<2 * Shape[2] - 1, -1>>>>

Polygons == {PolyAll, PolyOut, PolyLeft, PolyTop}

\* p = Path(verts); p.contains_points(self.pix, radius=0).reshape(self.mask.shape)
Indices(verts) == Reshape(ContainsPoints(verts, pix))

EraseMask(ind) == MaskedAssign(mask, ind, 0)

EraseOverlayKeepsColor(ind) ==
    [cell \in Cells |->
        IF ind[cell]
        THEN <<overlay[cell][1], overlay[cell][2], overlay[cell][3], 0>>
        ELSE overlay[cell]]

EraseOverlay(ind) == MaskedAssign(overlay, ind, Transparent)

AddMaskUnlabeledOnly(ind) ==
    [cell \in Cells |->
        IF ind[cell] /\ mask[cell] = 0 THEN cur_class_idx ELSE mask[cell]]

AddMaskAccumulate(ind) ==
    [cell \in Cells |->
        IF ind[cell] THEN mask[cell] + cur_class_idx
        ELSE mask[cell]]

AddMask(ind) == MaskedAssign(mask, ind, cur_class_idx)

AddOverlayFirstColor(ind) == MaskedAssign(overlay, ind, mask_colors[0])

AddOverlay(ind) ==
    MaskedAssign(overlay, ind, PyItem(mask_colors, n_classes, cur_class_idx - 1))

PrependPath(key, p) == [paths EXCEPT ![key] = <<p>> \o @]

AppendPath(key, p) == [paths EXCEPT ![key] = Append(@, p)]

OnselectDrawsFirst(verts) ==
    LET p == verts
        indices == Indices(verts)
    IN  /\ Len(log) < MaxGestures
        /\ log' = Append(log, [verts |-> verts, erasing |-> erasing,
                               value |-> IF erasing THEN 0 ELSE cur_class_idx])
        /\ shown' = overlay
        /\ draws' = draws + 1
        /\ IF erasing
           THEN /\ mask' = EraseMask(indices)
                /\ overlay' = EraseOverlay(indices)
                /\ paths' = AppendPath("erasing", p)
           ELSE /\ mask' = AddMask(indices)
                /\ overlay' = AddOverlay(indices)
                /\ paths' = AppendPath("adding", p)
        /\ Returns(<<>>)
        /\ UNCHANGED <<classes, n_classes, mask_alpha, mask_colors,
                       cur_class_idx, erasing, mask0>>

OnselectOneShotEraser(verts) ==
    LET p == verts
        indices == Indices(verts)
    IN  /\ Len(log) < MaxGestures
        /\ log' = Append(log, [verts |-> verts, erasing |-> erasing,
                               value |-> IF erasing THEN 0 ELSE cur_class_idx])
        /\ IF erasing
           THEN /\ mask' = EraseMask(indices)
                /\ overlay' = EraseOverlay(indices)
                /\ paths' = AppendPath("erasing", p)
           ELSE /\ mask' = AddMask(indices)
                /\ overlay' = AddOverlay(indices)
                /\ paths' = AppendPath("adding", p)
        /\ shown' = overlay'
        /\ draws' = draws + 1
        /\ erasing' = FALSE
        /\ Returns(<<>>)
        /\ UNCHANGED <<classes, n_classes, mask_alpha, mask_colors,
                       cur_class_idx, mask0>>

Onselect(verts) ==
    LET p == verts
        indices == Indices(verts)
    IN  /\ Len(log) < MaxGestures
        /\ log' = Append(log, [verts |-> verts, erasing |-> erasing,
                               value |-> IF erasing THEN 0 ELSE cur_class_idx])
        /\ IF erasing
           THEN /\ mask' = EraseMask(indices)
                /\ overlay' = EraseOverlay(indices)
                /\ paths' = AppendPath("erasing", p)
           ELSE /\ mask' = AddMask(indices)
                /\ overlay' = AddOverlay(indices)
                /\ paths' = AppendPath("adding", p)
        \* self._mask.set_data(self._overlay); self.fig.canvas.draw_idle()
        /\ shown' = overlay'
        /\ draws' = draws + 1
        /\ Returns(<<>>)
        /\ UNCHANGED <<classes, n_classes, mask_alpha, mask_colors,
                       cur_class_idx, erasing, mask0>>

(***************************************************************************)
(* Specification                                                           *)
(***************************************************************************)
\* values a caller writes to current_class
ClassWrites ==
    {PyInt(i) : i \in 0..(NClasses + 1)}
        \cup {PyStr(CallerClasses[1]), PyStr(CallerClasses[NClasses]),
              PyStr("background"), PyFloat("1.5")}

\* values a caller writes to erasing
ErasingWrites == {PyBool(TRUE), PyBool(FALSE), PyInt(1), PyNone}

Next ==
    \/ \E val \in ClassWrites : CurrentClassSetter(val)
    \/ \E val \in ErasingWrites : ErasingSetter(val)
    \/ \E verts \in Polygons : Onselect(verts)
    \/ GetPaths

Spec == Init /\ [][Next]_vars

(***************************************************************************)
(* Properties                                                              *)
(***************************************************************************)
Last(q) == q[Len(q)]

IsPrefix(q, r) == Len(q) <= Len(r) /\ SubSeq(r, 1, Len(q)) = q

\* the (x, y) of the pixel at grid cell <<row, column>>
PixelOf(cell) == <<2 * cell[2], 2 * cell[1]>>

\* C1: the overlay is the projection of the label mask through the color
\* table in every reachable state: transparent where the mask is 0,
\* otherwise the color of that cell's class.
C1_CacheCoherence ==
    \A cell \in Cells :
        overlay[cell] =
            IF mask[cell] = 0 THEN Transparent ELSE mask_colors[mask[cell] - 1]

C1_Witness ==
    /\ Len(paths["adding"]) >= 1
    /\ Len(paths["erasing"]) >= 1
    /\ \E cell \in Cells : mask[cell] = NClasses /\ mask0[cell] # NClasses
    /\ \E cell \in Cells : mask[cell] = 0 /\ mask0[cell] # 0

\* what the gestures log[1..k] leave at a cell: the value of the most recent
\* one whose polygon contains the cell, else the cell's initial value
RECURSIVE LastWritten(_, _)
LastWritten(cell, k) ==
    IF k = 0 THEN mask0[cell]
    ELSE IF PointInPath(log[k].verts, PixelOf(cell))
         THEN log[k].value
         ELSE LastWritten(cell, k - 1)

\* C2: later gesture wins: every label mask cell holds the value written by
\* the most recent gesture whose polygon contained it (the class current at
\* that time for an adding gesture, 0 for an erasing one), or its initial
\* value if no gesture contained it.
C2_LaterGestureWins ==
    \A cell \in Cells : mask[cell] = LastWritten(cell, Len(log))

C2_Witness ==
    /\ log = <<[verts |-> PolyLeft, erasing |-> FALSE, value |-> 1],
               [verts |-> PolyTop, erasing |-> FALSE, value |-> 2]>>
    /\ mask[<<0, 0>>] = 2
    /\ mask[<<1, 0>>] = 1

\* C3: for every valid 1-based index i, writing the identifier at registry
\* position i-1 to current_class succeeds and reads back as that identifier,
\* and writing the integer i reads back as the same identifier.
C3_RoundTrip ==
    [][\A i \in 1..n_classes :
            /\ CurrentClassSetter(classes[i - 1])
                    => (exc' = "none" /\ current_class' = classes[i - 1])
            /\ CurrentClassSetter(PyInt(i))
                    => (exc' = "none" /\ current_class' = classes[i - 1])]_vars

\* the writes C4 is about: 0, N+1 and identifiers absent from the registry
BadClassWrites ==
    {PyInt(0), PyInt(n_classes + 1)}
        \cup {v \in ClassWrites : IsStr(v) /\ ~PyIn(v, classes, n_classes)}

\* C4: writing 0, N+1 or an identifier that is not in the registry to
\* current_class raises ValueError and leaves the class index, the erasing
\* flag, the label mask, the overlay and both history lists as they were.
C4_BadClassRejected ==
    [][\A v \in BadClassWrites :
            CurrentClassSetter(v)
                => /\ exc' = "ValueError"
                   /\ UNCHANGED <<cur_class_idx, erasing, mask, overlay, paths>>]_vars

C4_Witness ==
    /\ exc = "ValueError"
    /\ cur_class_idx = NClasses
    /\ erasing
    /\ Len(paths["adding"]) >= 1
    /\ \E cell \in Cells : mask[cell] # mask0[cell]

\* C5: writing a non-boolean to erasing raises TypeError and changes neither
\* the flag nor the class, mask, overlay or history; writing a boolean
\* succeeds and the flag then reads as that boolean.
C5_ErasingWrite ==
    [][\A v \in ErasingWrites :
            ErasingSetter(v)
                => IF v.t = "bool"
                   THEN exc' = "none" /\ erasing_get' = (v = PyBool(TRUE))
                   ELSE /\ exc' = "TypeError"
                        /\ UNCHANGED <<erasing, cur_class_idx, mask, overlay,
                                       paths>>]_vars

C5_Witness ==
    /\ exc = "TypeError"
    /\ erasing_get
    /\ Len(log) >= 1

\* every vertex lies beyond one and the same side of the pixel grid
FullyOutside(verts) ==
    \/ \A k \in 1..Len(verts) : verts[k][1] < 0
    \/ \A k \in 1..Len(verts) : verts[k][1] > 2 * (Shape[2] - 1)
    \/ \A k \in 1..Len(verts) : verts[k][2] < 0
    \/ \A k \in 1..Len(verts) : verts[k][2] > 2 * (Shape[1] - 1)

\* C6: a gesture whose polygon lies fully outside the image leaves the label
\* mask, the overlay and the other mode's history unchanged and appends the
\* polygon, and nothing else, to the active mode's history.
C6_OutsideGesture ==
    [][\A p \in Polygons :
            (Onselect(p) /\ FullyOutside(p))
                => /\ mask' = mask
                   /\ overlay' = overlay
                   /\ IF erasing
                      THEN /\ paths'["adding"] = paths["adding"]
                           /\ paths'["erasing"] = Append(paths["erasing"], p)
                      ELSE /\ paths'["erasing"] = paths["erasing"]
                           /\ paths'["adding"] = Append(paths["adding"], p)]_vars

C6_Witness ==
    /\ Len(log) >= 2
    /\ Last(log).verts = PolyOut
    /\ Last(log).erasing
    /\ Last(paths["erasing"]) = PolyOut
    /\ \E cell \in Cells : mask[cell] # 0 /\ mask[cell] # mask0[cell]

CoversGrid(verts) == \A cell \in Cells : PointInPath(verts, PixelOf(cell))

\* C7: an adding gesture whose polygon contains every cell sets every mask
\* cell to the current class index and every overlay cell to that class's
\* color; an erasing gesture with such a polygon sets every mask cell to 0
\* and every overlay cell to transparent, so add-then-erase ends all clear.
C7_FullBounds ==
    [][\A p \in Polygons :
            (Onselect(p) /\ CoversGrid(p))
                => \A cell \in Cells :
                        IF erasing
                        THEN mask'[cell] = 0 /\ overlay'[cell] = Transparent
                        ELSE /\ mask'[cell] = cur_class_idx
                             /\ overlay'[cell] = mask_colors[cur_class_idx - 1]]_vars

C7_Witness ==
    /\ Len(log) >= 2
    /\ log[Len(log) - 1] = [verts |-> PolyAll, erasing |-> FALSE, value |-> NClasses]
    /\ Last(log) = [verts |-> PolyAll, erasing |-> TRUE, value |-> 0]
    /\ \A cell \in Cells : mask[cell] = 0 /\ overlay[cell] = Transparent
    /\ \E cell \in Cells : mask0[cell] # 0

\* C8: completing the same adding-mode polygon again, class and mode being
\* what they were at the first completion, changes neither the label mask
\* nor the overlay; only the adding history gets one more entry.
C8_AddIdempotent ==
    [][\A p \in Polygons :
            (/\ Len(log) >= 1
             /\ Last(log) = [verts |-> p, erasing |-> FALSE, value |-> cur_class_idx]
             /\ ~erasing
             /\ Onselect(p))
                => /\ mask' = mask
                   /\ overlay' = overlay
                   /\ paths'["adding"] = Append(paths["adding"], p)
                   /\ paths'["erasing"] = paths["erasing"]]_vars

C8_Witness ==
    /\ log = <<[verts |-> PolyLeft, erasing |-> FALSE, value |-> NClasses],
               [verts |-> PolyLeft, erasing |-> FALSE, value |-> NClasses]>>
    /\ paths["adding"] = <<PolyLeft, PolyLeft>>
    /\ \E cell \in Cells : mask[cell] # mask0[cell]

\* C9: the history is append-only and chronological: a gesture appends its
\* polygon at the end of the active mode's list and leaves the other list
\* alone, no other call changes either list, each list is a prefix of what
\* it is after any step, and get_paths returns the two lists as they are.
C9_HistoryAppendOnly ==
    [][/\ IsPrefix(paths["adding"], paths'["adding"])
       /\ IsPrefix(paths["erasing"], paths'["erasing"])
       /\ \A p \in Polygons :
            Onselect(p)
                => paths' = IF erasing
                            THEN [adding |-> paths["adding"],
                                  erasing |-> Append(paths["erasing"], p)]
                            ELSE [adding |-> Append(paths["adding"], p),
                                  erasing |-> paths["erasing"]]
       /\ (\/ \E v \in ClassWrites : CurrentClassSetter(v)
           \/ \E v \in ErasingWrites : ErasingSetter(v)
           \/ GetPaths) => paths' = paths
       /\ GetPaths => ret' = <<[adding |-> paths["adding"],
                                erasing |-> paths["erasing"]]>>]_vars

C9_Witness ==
    /\ paths["adding"] = <<PolyLeft, PolyTop>>
    /\ ret = <<paths>>

\* C10: the current class index is always in [1, N], so current_class
\* always reads as a member of the registry.
C10_CurrentClassInRange ==
    /\ n_classes >= 1
    /\ cur_class_idx \in 1..n_classes
    /\ \E i \in 0..(n_classes - 1) : current_class = classes[i]

C10_Witness ==
    /\ exc = "ValueError"
    /\ cur_class_idx = n_classes
    /\ current_class = classes[n_classes - 1]
    /\ Len(log) >= 1

\* C11: every label mask cell stays in [0, N] and the mask keeps the height
\* and width it had at construction.
C11_LabelRange ==
    /\ DOMAIN mask = Cells
    /\ DOMAIN mask = DOMAIN mask0
    /\ \A cell \in DOMAIN mask : mask[cell] \in 0..n_classes

C11_Witness ==
    /\ Len(paths["adding"]) >= 1
    /\ Len(paths["erasing"]) >= 1
    /\ cur_class_idx = NClasses
    /\ \E cell \in Cells : mask[cell] = NClasses /\ mask0[cell] = NClasses - 1
    /\ \E cell \in Cells : mask[cell] = 0 /\ mask0[cell] = NClasses

\* C12: right after construction the erasing flag is false, current_class
\* reads as the first identifier of the registry (index 1) and both history
\* lists are empty.
C12_InitialState ==
    /\ erasing_get = FALSE
    /\ cur_class_idx = 1
    /\ current_class = classes[0]
    /\ paths = [adding |-> <<>>, erasing |-> <<>>]
    /\ [][TRUE]_vars

C12_Witness ==
    /\ log = <<>>
    /\ draws = 0
    /\ ~erasing
    /\ current_class = PyStr(CallerClasses[1])
    /\ paths = [adding |-> <<>>, erasing |-> <<>>]
    /\ \E cell \in Cells : mask[cell] # 0

\* C13: every completed gesture, in either mode and also when its polygon
\* contains no cell, issues exactly one redraw request, and what the display
\* holds at that request is the overlay with this gesture's update applied,
\* with the label mask and the history updated as well.
C13_RedrawAfterUpdate ==
    [][\A p \in Polygons :
            Onselect(p)
                => /\ draws' = draws + 1
                   /\ shown' = overlay'
                   /\ \A cell \in Cells :
                        /\ shown'[cell] =
                             IF mask'[cell] = 0 THEN Transparent
                             ELSE mask_colors[mask'[cell] - 1]
                        /\ PointInPath(p, PixelOf(cell))
                             => mask'[cell] = IF erasing THEN 0 ELSE cur_class_idx
                   /\ Last(paths'[IF erasing THEN "erasing" ELSE "adding"]) = p]_vars

C13_Witness ==
    /\ draws = MaxGestures
    /\ Len(log) = MaxGestures
    /\ Last(log).verts = PolyOut
    /\ log[1].verts = PolyTop
    /\ ~log[1].erasing
    /\ shown = overlay
    /\ \E cell \in Cells : shown[cell] # Transparent /\ mask0[cell] = 0

AlphaForced == \A i \in 0..(n_classes - 1) : mask_colors[i][4] = mask_alpha

\* C14: every color-table entry has the configured opacity as its alpha,
\* also when the caller's colors came with another alpha, and no gesture,
\* current_class write or erasing write changes the color table.
C14_ColorTable ==
    [][AlphaForced /\ AlphaForced' /\ UNCHANGED <<mask_colors, mask_alpha>>]_vars

C14_Witness ==
    /\ mask_colors[0] = <<CallerColors[1][1], CallerColors[1][2],
                          CallerColors[1][3], mask_alpha>>
    /\ CallerColors[1][4] # mask_alpha
    /\ Len(paths["adding"]) >= 1
    /\ Len(paths["erasing"]) >= 1
    /\ cur_class_idx = NClasses

\* C15: a successful write of current_class or of erasing leaves the label
\* mask, the overlay and both history lists unchanged; a current_class write
\* leaves the erasing flag unchanged and an erasing write leaves the current
\* class unchanged.
C15_ModeWritesDoNotPaint ==
    [][/\ \A v \in ClassWrites :
            (CurrentClassSetter(v) /\ exc' = "none")
                => UNCHANGED <<mask, overlay, paths, erasing>>
       /\ \A v \in ErasingWrites :
            (ErasingSetter(v) /\ exc' = "none")
                => UNCHANGED <<mask, overlay, paths, cur_class_idx>>]_vars

C15_Witness ==
    /\ Len(log) >= 1
    /\ \A k \in 1..Len(log) : log[k].value = 1
    /\ cur_class_idx = NClasses
    /\ erasing
    /\ exc = "none"
    /\ \E cell \in Cells :
        /\ mask[cell] = 1
        /\ mask0[cell] # 1
        /\ overlay[cell] = mask_colors[0]

\* C16: a completed gesture changes neither the erasing flag nor the current
\* class index, in both modes; an erasing gesture writes 0 at the contained
\* cells whatever the current class is.
C16_GestureKeepsMode ==
    [][\A p \in Polygons :
            Onselect(p)
                => /\ erasing' = erasing
                   /\ cur_class_idx' = cur_class_idx
                   /\ erasing
                        => \A cell \in Cells :
                             PointInPath(p, PixelOf(cell)) => mask'[cell] = 0]_vars

C16_Witness ==
    /\ Len(log) = MaxGestures
    /\ Last(log) = [verts |-> PolyLeft, erasing |-> TRUE, value |-> 0]
    /\ log[1].value = NClasses
    /\ erasing
    /\ cur_class_idx = NClasses
    /\ mask[<<0, 0>>] = 0
    /\ \E cell \in Cells : mask[cell] = NClasses /\ mask0[cell] # NClasses

CountRegistry == \A i \in 0..(n_classes - 1) : classes[i] = PyInt(i)

\* C17: with a registry built from a count N, an integer written to
\* current_class is taken as a 1-based index: v in [1, N] succeeds and
\* current_class then reads v-1; v = 0 is rejected although 0 is a member.
C17_IntegerIsIndex ==
    [][CountRegistry
            => \A v \in 0..n_classes :
                CurrentClassSetter(PyInt(v))
                    => IF v = 0
                       THEN /\ PyIn(PyInt(v), classes, n_classes)
                            /\ exc' = "ValueError"
                            /\ cur_class_idx' = cur_class_idx
                       ELSE /\ exc' = "none"
                            /\ cur_class_idx' = v
                            /\ current_class' = PyInt(v - 1)]_vars

C17_Witness ==
    /\ CountRegistry
    /\ cur_class_idx = NClasses
    /\ current_class = PyInt(NClasses - 1)
    /\ exc = "ValueError"

=============================================================================
